---- MODULE Spec2Model ----
(***************************************************************************)
(* Model of the DS3231 real-time-clock driver (src/ds3231.c, src/ds3231.h) *)
(* on top of its nRF5 I2C hardware abstraction layer (src/hal/hal_nrf5.c). *)
(*                                                                         *)
(* The chip is a bank of 19 byte registers (0x00..0x12).  Every driver     *)
(* function is a pure operator from the register bank, its arguments and   *)
(* the outcome of each bus transfer to a result record                     *)
(*   [regs, ret, out, calls]                                               *)
(* and every action applies one such operator and records the call.        *)
(***************************************************************************)
EXTENDS Integers, Sequences, FiniteSets

VARIABLES
    regs,     \* the chip's register bank, [0..18 -> 0..255]
    halted,   \* TRUE once APP_ERROR_CHECK's handler did not return
    written,  \* history: the struct tm of the last set-time whose write reached the chip
    last,     \* the last completed driver call
    pc,       \* per concurrent caller: position inside ds3231_set_flag
    loc       \* per concurrent caller: arguments and locals of ds3231_set_flag

vars == <<regs, halted, written, last, pc, loc>>

----------------------------------------------------------------------------
(* Bounds of the model (not program constants).                            *)

\* how far beyond its valid range an out-of-range calendar field is tried
InvalidSpread == 2

----------------------------------------------------------------------------
(* uint8_t arithmetic.                                                     *)

U8(x) == x % 256

RECURSIVE BitAndN(_, _, _)
BitAndN(a, b, n) ==
    IF n = 0 THEN 0
    ELSE (a % 2) * (b % 2) + 2 * BitAndN(a \div 2, b \div 2, n - 1)

\* the table of a & b over the bytes
BitAndTab == [a \in 0..255 |-> [b \in 0..255 |-> BitAndN(a, b, 8)]]

BitAnd(a, b) == BitAndTab[a][b]
BitOr(a, b)  == a + b - BitAnd(a, b)
BitNot(a)    == 255 - a

----------------------------------------------------------------------------
(* Register map and bit assignments, src/ds3231.h.                         *)

DS3231_STAT_OSCILLATOR == 128
DS3231_STAT_32KHZ      == 8
DS3231_CTRL_OSCILLATOR == 128
DS3231_CTRL_ALARM_INTS == 4
DS3231_CTRL_ALARM2_INT == 2
DS3231_CTRL_ALARM1_INT == 1
DS3231_ALARM_WDAY      == 64
DS3231_ALARM_NOTSET    == 128
DS3231_ADDR_TIME       == 0
DS3231_ADDR_ALARM1     == 7
DS3231_ADDR_ALARM2     == 11
DS3231_ADDR_CONTROL    == 14
DS3231_ADDR_STATUS     == 15
DS3231_ADDR_TEMP       == 17
DS3231_12HOUR_FLAG     == 64
DS3231_12HOUR_MASK     == 31
DS3231_PM_FLAG         == 32
DS3231_MONTH_MASK      == 31

DS3231_SET     == 0
DS3231_CLEAR   == 1
DS3231_REPLACE == 2

DS3231_ALARM_NONE == 0
DS3231_ALARM_1    == 1
DS3231_ALARM_2    == 2
DS3231_ALARM_BOTH == 3

DS3231_ALARM1_EVERY_SECOND        == 0
DS3231_ALARM1_MATCH_SEC           == 1
DS3231_ALARM1_MATCH_SECMIN        == 2
DS3231_ALARM1_MATCH_SECMINHOUR    == 3
DS3231_ALARM1_MATCH_SECMINHOURDAY == 4
DS3231_ALARM1_MATCH_SECMINHOURDATE == 5

DS3231_ALARM2_EVERY_MIN        == 0
DS3231_ALARM2_MATCH_MIN        == 1
DS3231_ALARM2_MATCH_MINHOUR    == 2
DS3231_ALARM2_MATCH_MINHOURDAY == 3
DS3231_ALARM2_MATCH_MINHOURDATE == 4

DS3231_SQWAVE_1HZ    == 0
DS3231_SQWAVE_1024HZ == 8
DS3231_SQWAVE_4096HZ == 16
DS3231_SQWAVE_8192HZ == 24

\* the chip's last register address: the temperature LSB
LastReg == DS3231_ADDR_TEMP + 1

RegAddrs == 0..LastReg

----------------------------------------------------------------------------
(* BCD conversion, src/ds3231.c:16-25.  Both take and return uint8_t.      *)

bcd2dec(val) == U8((val \div 16) * 10 + BitAnd(val, 15))

\* dec2bcd with a 3-bit tens digit: the tens are taken modulo 8
dec2bcd_tens3(val) == U8((((val \div 10) % 8) * 16) + (val % 10))

dec2bcd(val) == U8(((val \div 10) * 16) + (val % 10))

----------------------------------------------------------------------------
(* The I2C transport, src/hal/hal_nrf5.c.  The outcome o of a transfer is  *)
(*   "ok"   nrf_drv_twi_tx / _rx returned NRF_SUCCESS                      *)
(*   "err"  it returned an error and APP_ERROR_CHECK's handler returned    *)
(* (a handler that does not return is the action ErrorHandlerHalts).       *)

Outcomes == {"ok", "err"}

Call(kind, reg, len, o) == [kind |-> kind, reg |-> reg, len |-> len, ok |-> o = "ok"]

\* the register bank after a burst write of bytes at reg
BurstWrite(r, reg, bytes) ==
    [a \in RegAddrs |->
        IF a >= reg /\ a < reg + Len(bytes) THEN bytes[a - reg + 1] ELSE r[a]]

\* n bytes of the register bank starting at reg
BurstRead(r, reg, n) == [i \in 1..n |-> r[reg + i - 1]]

\* hal_i2c_write_reg: false on NRF_SUCCESS, true otherwise
hal_i2c_write_reg(r, reg, out_data, o) ==
    [regs  |-> IF o = "ok" THEN BurstWrite(r, reg, out_data) ELSE r,
     ret   |-> ~(o = "ok"),
     data  |-> out_data,
     calls |-> <<Call("write", reg, Len(out_data), o)>>]

\* hal_i2c_read_reg: in_data (buf) is filled on success and left as it was
\* otherwise; the function returns true in either case
hal_i2c_read_reg(r, reg, buf, o) ==
    [regs  |-> r,
     ret   |-> TRUE,
     data  |-> IF o = "ok" THEN BurstRead(r, reg, Len(buf)) ELSE buf,
     calls |-> <<Call("read", reg, Len(buf), o)>>]

----------------------------------------------------------------------------
(* struct tm, the fields the driver uses.                                  *)

Tm(sec, min, hour, wday, mday, mon, year) ==
    [tm_sec |-> sec, tm_min |-> min, tm_hour |-> hour, tm_wday |-> wday,
     tm_mday |-> mday, tm_mon |-> mon, tm_year |-> year]

NoTm == Tm(0, 0, 0, 0, 0, 0, 0)

\* result of a driver function
Result(r, ret, out, calls) ==
    [regs |-> r, ret |-> ret, out |-> out, calls |-> calls]

----------------------------------------------------------------------------
(* ds3231_set_time, src/ds3231.c:42-58.                                    *)

ds3231_set_time(r, time, o) ==
    LET data == << dec2bcd(U8(time.tm_sec)),
                   dec2bcd(U8(time.tm_min)),
                   dec2bcd(U8(time.tm_hour)),
                   dec2bcd(U8(time.tm_wday + 1)),
                   dec2bcd(U8(time.tm_mday)),
                   dec2bcd(U8(time.tm_mon + 1)),
                   dec2bcd(U8(time.tm_year - 2000)) >>
        w == hal_i2c_write_reg(r, DS3231_ADDR_TIME, data, o)
    IN  Result(w.regs, w.ret, NoTm, w.calls)

(* ds3231_get_time, src/ds3231.c:60-87.  buf is the content of the         *)
(* uninitialised local data[7] before the read.                            *)

\* lines 70-79: the hour field of the hour register byte b
DecodeHour(b) ==
    IF BitAnd(b, DS3231_12HOUR_FLAG) # 0
    THEN (bcd2dec(BitAnd(b, DS3231_12HOUR_MASK)) - 1)
         + (IF BitAnd(b, DS3231_PM_FLAG) # 0 THEN 12 ELSE 0)
    ELSE bcd2dec(b)

ds3231_get_time(r, buf, o) ==
    LET rd   == hal_i2c_read_reg(r, DS3231_ADDR_TIME, buf, o)
        data == rd.data
        time == Tm(bcd2dec(data[1]),
                   bcd2dec(data[2]),
                   DecodeHour(data[3]),
                   bcd2dec(data[4]) - 1,
                   bcd2dec(data[5]),
                   bcd2dec(BitAnd(data[6], DS3231_MONTH_MASK)) - 1,
                   bcd2dec(data[7]) + 2000)
    IN  Result(rd.regs, TRUE, time, rd.calls)

----------------------------------------------------------------------------
(* ds3231_set_alarm, src/ds3231.c:89-113.                                  *)

\* lines 96-102: the four bytes of the first alarm
Alarm1Data(time1, option1) ==
    << IF option1 >= DS3231_ALARM1_MATCH_SEC
            THEN dec2bcd(U8(time1.tm_sec)) ELSE DS3231_ALARM_NOTSET,
       IF option1 >= DS3231_ALARM1_MATCH_SECMIN
            THEN dec2bcd(U8(time1.tm_min)) ELSE DS3231_ALARM_NOTSET,
       IF option1 >= DS3231_ALARM1_MATCH_SECMINHOUR
            THEN dec2bcd(U8(time1.tm_hour)) ELSE DS3231_ALARM_NOTSET,
       IF option1 = DS3231_ALARM1_MATCH_SECMINHOURDAY
            THEN BitAnd(dec2bcd(U8(time1.tm_wday + 1)), DS3231_ALARM_WDAY)
            ELSE IF option1 = DS3231_ALARM1_MATCH_SECMINHOURDATE
                 THEN dec2bcd(U8(time1.tm_mday)) ELSE DS3231_ALARM_NOTSET >>

\* lines 105-110: the three bytes of the second alarm
Alarm2Data(time2, option2) ==
    << IF option2 >= DS3231_ALARM2_MATCH_MIN
            THEN dec2bcd(U8(time2.tm_min)) ELSE DS3231_ALARM_NOTSET,
       IF option2 >= DS3231_ALARM2_MATCH_MINHOUR
            THEN dec2bcd(U8(time2.tm_hour)) ELSE DS3231_ALARM_NOTSET,
       IF option2 = DS3231_ALARM2_MATCH_MINHOURDAY
            THEN BitAnd(dec2bcd(U8(time2.tm_wday + 1)), DS3231_ALARM_WDAY)
            ELSE IF option2 = DS3231_ALARM2_MATCH_MINHOURDATE
                 THEN dec2bcd(U8(time2.tm_mday)) ELSE DS3231_ALARM_NOTSET >>

ds3231_set_alarm(r, alarms, time1, option1, time2, option2, o) ==
    LET d1   == IF alarms # DS3231_ALARM_2 THEN Alarm1Data(time1, option1) ELSE <<>>
        d2   == IF alarms # DS3231_ALARM_1 THEN Alarm2Data(time2, option2) ELSE <<>>
        base == IF alarms = DS3231_ALARM_2 THEN DS3231_ADDR_ALARM2 ELSE DS3231_ADDR_ALARM1
        w    == hal_i2c_write_reg(r, base, d1 \o d2, o)
    IN  Result(w.regs, w.ret, NoTm, w.calls)

----------------------------------------------------------------------------
(* ds3231_get_flag, src/ds3231.c:122-135.  g is the content of the         *)
(* uninitialised local data before the read, flag0 the caller's *flag.     *)

ds3231_get_flag(r, addr, mask, g, flag0, o) ==
    LET rd == hal_i2c_read_reg(r, addr, <<g>>, o)
    IN  IF rd.ret # TRUE
        THEN Result(rd.regs, rd.ret, flag0, rd.calls)
        ELSE Result(rd.regs, TRUE, BitAnd(rd.data[1], mask), rd.calls)

(* ds3231_set_flag, src/ds3231.c:143-162, in its two bus steps.            *)

\* lines 153-159: the byte to store
FlagData(data, bits, mode) ==
    IF mode = DS3231_REPLACE THEN bits
    ELSE IF mode = DS3231_SET THEN BitOr(data, bits)
    ELSE BitAnd(data, BitNot(bits))

\* lines 148-159: read the register and compute the new byte (in out)
set_flag_read(r, addr, bits, mode, g, o) ==
    LET rd == hal_i2c_read_reg(r, addr, <<g>>, o)
    IN  Result(rd.regs, rd.ret, FlagData(rd.data[1], bits, mode), rd.calls)

\* the last step of ds3231_set_flag done with the write primitive instead
set_flag_writeback_stores(r, addr, data, o) ==
    LET w == hal_i2c_write_reg(r, addr, <<data>>, o)
    IN  Result(w.regs, w.ret, w.data[1], w.calls)

\* line 161: the last step, a call of hal_i2c_read_reg into data
set_flag_writeback(r, addr, data, o) ==
    LET rd == hal_i2c_read_reg(r, addr, <<data>>, o)
    IN  Result(rd.regs, rd.ret, rd.data[1], rd.calls)

\* the result b of the second part of a function whose first part gave a,
\* with the bus calls of both
Then(a, b) == Result(b.regs, b.ret, b.out, a.calls \o b.calls)

\* the whole function; it has no output but its result
ds3231_set_flag(r, addr, bits, mode, g, o1, o2) ==
    LET s1 == set_flag_read(r, addr, bits, mode, g, o1)
        s2 == Then(s1, set_flag_writeback(s1.regs, addr, s1.out, o2))
    IN  IF s1.ret # TRUE
        THEN Result(s1.regs, s1.ret, 0, s1.calls)
        ELSE Result(s2.regs, s2.ret, 0, s2.calls)

----------------------------------------------------------------------------
(* The flag operations, src/ds3231.c:164-234.                              *)

ds3231_get_oscillator_stop_flag(r, g, o) ==
    LET f == ds3231_get_flag(r, DS3231_ADDR_STATUS, DS3231_STAT_OSCILLATOR, g, 0, o)
    IN  Result(f.regs, TRUE, IF f.out # 0 THEN 1 ELSE 0, f.calls)

ds3231_clear_oscillator_stop_flag(r, g, o1, o2) ==
    ds3231_set_flag(r, DS3231_ADDR_STATUS, DS3231_STAT_OSCILLATOR, DS3231_CLEAR, g, o1, o2)

ds3231_get_alarm_flags(r, g, o) ==
    ds3231_get_flag(r, DS3231_ADDR_STATUS, DS3231_ALARM_BOTH, g, 0, o)

ds3231_clear_alarm_flags(r, alarms, g, o1, o2) ==
    ds3231_set_flag(r, DS3231_ADDR_STATUS, alarms, DS3231_CLEAR, g, o1, o2)

ds3231_enable_alarm_ints(r, alarms, g, o1, o2) ==
    ds3231_set_flag(r, DS3231_ADDR_CONTROL, BitOr(DS3231_CTRL_ALARM_INTS, alarms),
                    DS3231_SET, g, o1, o2)

ds3231_disable_alarm_ints(r, alarms, g, o1, o2) ==
    ds3231_set_flag(r, DS3231_ADDR_CONTROL, alarms, DS3231_CLEAR, g, o1, o2)

ds3231_enable_32khz(r, g, o1, o2) ==
    ds3231_set_flag(r, DS3231_ADDR_STATUS, DS3231_STAT_32KHZ, DS3231_SET, g, o1, o2)

ds3231_disable_32khz(r, g, o1, o2) ==
    ds3231_set_flag(r, DS3231_ADDR_STATUS, DS3231_STAT_32KHZ, DS3231_CLEAR, g, o1, o2)

ds3231_enable_squarewave(r, g, o1, o2) ==
    ds3231_set_flag(r, DS3231_ADDR_CONTROL, DS3231_CTRL_ALARM_INTS, DS3231_CLEAR, g, o1, o2)

ds3231_disable_squarewave(r, g, o1, o2) ==
    ds3231_set_flag(r, DS3231_ADDR_CONTROL, DS3231_CTRL_ALARM_INTS, DS3231_SET, g, o1, o2)

\* ds3231_set_squarewave_freq storing the frequency code as the whole
\* control byte, without reading the register
ds3231_set_squarewave_freq_overwrite(r, freq, g, o0, o1, o2) ==
    LET w == hal_i2c_write_reg(r, DS3231_ADDR_CONTROL, <<freq>>, o0)
    IN  Result(w.regs, TRUE, 0, w.calls)

\* lines 224-234; flag starts as 0 and both results are ignored
ds3231_set_squarewave_freq(r, freq, g, o0, o1, o2) ==
    LET f    == ds3231_get_flag(r, DS3231_ADDR_CONTROL, 255, g, 0, o0)
        flag == BitOr(BitAnd(f.out, BitNot(DS3231_SQWAVE_8192HZ)), freq)
        s    == Then(f, ds3231_set_flag(f.regs, DS3231_ADDR_CONTROL, flag,
                                        DS3231_REPLACE, g, o1, o2))
    IN  Result(s.regs, TRUE, 0, s.calls)

----------------------------------------------------------------------------
(* Inputs.                                                                 *)

\* the register bank at power-on: 00:00:00, day 1, 01/01/00, control 0x1C,
\* status 0x88, temperature 25.00
InitRegs ==
    [a \in RegAddrs |->
        CASE a \in {3, 4, 5}         -> 1
          [] a = DS3231_ADDR_CONTROL -> 28
          [] a = DS3231_ADDR_STATUS  -> 136
          [] a = DS3231_ADDR_TEMP    -> 25
          [] OTHER                   -> 0]

\* what an uninitialised local byte may hold
Garbage == {0, 165, 255}

\* what the uninitialised local data[7] of ds3231_get_time may hold
GarbageBufs == {[i \in 1..7 |-> g] : g \in Garbage}

BaseTm == Tm(56, 34, 12, 3, 15, 5, 2020)

IsValidTm(t) ==
    /\ t.tm_sec  \in 0..59
    /\ t.tm_min  \in 0..59
    /\ t.tm_hour \in 0..23
    /\ t.tm_wday \in 0..6
    /\ t.tm_mday \in 1..31
    /\ t.tm_mon  \in 0..11
    /\ t.tm_year \in 2000..2099

\* every value of every field, the other fields at BaseTm, and the two corners
ValidTimes ==
    {[BaseTm EXCEPT !.tm_sec  = v] : v \in 0..59} \cup
    {[BaseTm EXCEPT !.tm_min  = v] : v \in 0..59} \cup
    {[BaseTm EXCEPT !.tm_hour = v] : v \in 0..23} \cup
    {[BaseTm EXCEPT !.tm_wday = v] : v \in 0..6} \cup
    {[BaseTm EXCEPT !.tm_mday = v] : v \in 1..31} \cup
    {[BaseTm EXCEPT !.tm_mon  = v] : v \in 0..11} \cup
    {[BaseTm EXCEPT !.tm_year = v] : v \in 2000..2099} \cup
    {Tm(0, 0, 0, 0, 1, 0, 2000), Tm(59, 59, 23, 6, 31, 11, 2099)}

\* one field up to InvalidSpread beyond its range, the other fields at BaseTm
InvalidTimes ==
    UNION {
        { [BaseTm EXCEPT !.tm_sec  = 59 + k],
          [BaseTm EXCEPT !.tm_min  = 59 + k],
          [BaseTm EXCEPT !.tm_hour = 23 + k],
          [BaseTm EXCEPT !.tm_wday = 6 + k],
          [BaseTm EXCEPT !.tm_mday = 31 + k],
          [BaseTm EXCEPT !.tm_mon  = 11 + k],
          [BaseTm EXCEPT !.tm_mon  = 0 - k],
          [BaseTm EXCEPT !.tm_year = 2099 + k],
          [BaseTm EXCEPT !.tm_year = 2000 - k] } : k \in 1..InvalidSpread }

\* the hour register bytes the chip may hold at start: 24-hour 00, 12 and
\* 23, and 12-hour 1 AM, 1 PM, 12 AM, 12 PM and 11 PM
HourBytes == {0, 18, 35, 65, 97, 82, 114, 113}

\* the times a failing write is tried with
FailTimes == {BaseTm, Tm(59, 59, 23, 6, 31, 11, 2099), [BaseTm EXCEPT !.tm_year = 2100]}

----------------------------------------------------------------------------
(* The record of a completed driver call.  pre is the register bank before *)
(* the call, kept for the calls on the flag registers only.                *)

CallRec(op, arg, res, pre) ==
    [op |-> op, arg |-> arg, ret |-> res.ret, out |-> res.out,
     calls |-> res.calls, pre |-> pre]

NoCall ==
    [op |-> "none", arg |-> <<>>, ret |-> TRUE, out |-> 0, calls |-> <<>>,
     pre |-> <<>>]

Procs == {1, 2}

\* a caller's arguments (addr, bits, mode), its local data, its result, the
\* register byte when it began (pre) and whether it began after the other
\* caller had returned (second)
NoLoc == [addr |-> 0, bits |-> 0, mode |-> 0, data |-> 0, ret |-> TRUE,
          pre |-> 0, second |-> FALSE]

\* what every specification starts from, but for the register bank
InitRest ==
    /\ halted = FALSE
    /\ written = <<>>
    /\ last = NoCall
    /\ pc = [c \in Procs |-> "idle"]
    /\ loc = [c \in Procs |-> NoLoc]

\* APP_ERROR_CHECK, src/hal/hal_nrf5.c:54 and 67: the handler of a failed
\* transfer does not return; no driver call completes any more
ErrorHandlerHalts ==
    /\ ~halted
    /\ halted' = TRUE
    /\ UNCHANGED <<regs, written, last, pc, loc>>

----------------------------------------------------------------------------
(* The clock: set-time and get-time.                                       *)

InitTime ==
    /\ \E h \in HourBytes : regs = [InitRegs EXCEPT ![2] = h]
    /\ InitRest

SetTime ==
    /\ ~halted
    /\ \E o \in Outcomes :
       \E t \in (IF o = "ok" THEN ValidTimes \cup InvalidTimes ELSE FailTimes) :
         LET res == ds3231_set_time(regs, t, o)
         IN  /\ regs' = res.regs
             /\ last' = CallRec("set_time", t, res, <<>>)
             /\ written' = IF o = "ok" THEN <<t>> ELSE written
    /\ UNCHANGED <<halted, pc, loc>>

GetTime ==
    /\ ~halted
    /\ \E o \in Outcomes :
       \E buf \in (IF o = "ok" THEN {[i \in 1..7 |-> 0]} ELSE GarbageBufs) :
         LET res == ds3231_get_time(regs, buf, o)
         IN  /\ regs' = res.regs
             /\ last' = CallRec("get_time", <<>>, res, <<>>)
    /\ UNCHANGED <<halted, written, pc, loc>>

NextTime == SetTime \/ GetTime \/ ErrorHandlerHalts

SpecTime == InitTime /\ [][NextTime]_vars

----------------------------------------------------------------------------
(* The alarms: set-alarm.  An alarm that is not set is passed a null       *)
(* struct tm and option 0 (src/ds3231.h:147).                              *)

\* the first alarm's time and rate: every rate at BaseTm, and every
\* weekday at the rate that matches the day of the week
Alarm1Args ==
    {<<BaseTm, o1>> :
        o1 \in DS3231_ALARM1_EVERY_SECOND..DS3231_ALARM1_MATCH_SECMINHOURDATE}
    \cup
    {<<[BaseTm EXCEPT !.tm_wday = v], DS3231_ALARM1_MATCH_SECMINHOURDAY>> : v \in 0..6}

\* the second alarm's time and rate
Alarm2Args ==
    {<<BaseTm, o2>> :
        o2 \in DS3231_ALARM2_EVERY_MIN..DS3231_ALARM2_MATCH_MINHOURDATE}

AlarmArgs ==
    {[alarms |-> DS3231_ALARM_1, time1 |-> a1[1], option1 |-> a1[2],
      time2 |-> NoTm, option2 |-> 0] : a1 \in Alarm1Args}
    \cup
    {[alarms |-> DS3231_ALARM_2, time1 |-> NoTm, option1 |-> 0,
      time2 |-> a2[1], option2 |-> a2[2]] : a2 \in Alarm2Args}
    \cup
    {[alarms |-> DS3231_ALARM_BOTH, time1 |-> a1[1], option1 |-> a1[2],
      time2 |-> a2[1], option2 |-> a2[2]] : a1 \in Alarm1Args, a2 \in Alarm2Args}

InitAlarm ==
    /\ regs = InitRegs
    /\ InitRest

SetAlarm ==
    /\ ~halted
    /\ \E o \in Outcomes :
       \E a \in AlarmArgs :
         LET res == ds3231_set_alarm(regs, a.alarms, a.time1, a.option1,
                                     a.time2, a.option2, o)
         IN  /\ regs' = res.regs
             /\ last' = CallRec("set_alarm", a, res, <<>>)
    /\ UNCHANGED <<halted, written, pc, loc>>

NextAlarm == SetAlarm \/ ErrorHandlerHalts

SpecAlarm == InitAlarm /\ [][NextAlarm]_vars

----------------------------------------------------------------------------
(* The flag registers: control and status.                                 *)

\* the bytes a flag register may hold at start: every combination of the
\* three low bits with the five high bits all clear, all set, and as at
\* power-on in the control (0x18) and the status (0x88) register
FlagBytes == {x + h : x \in 0..7, h \in {0, 24, 136, 248}}

FlagRegs == {DS3231_ADDR_CONTROL, DS3231_ADDR_STATUS}

InitFlags ==
    /\ \E a \in FlagRegs : \E d \in FlagBytes : regs = [InitRegs EXCEPT ![a] = d]
    /\ InitRest

\* the alarms a caller may name
Alarms == {DS3231_ALARM_1, DS3231_ALARM_2, DS3231_ALARM_BOTH}

SqwaveFreqs == {DS3231_SQWAVE_1HZ, DS3231_SQWAVE_1024HZ,
                DS3231_SQWAVE_4096HZ, DS3231_SQWAVE_8192HZ}

\* what an uninitialised local byte holds when the read with outcome o
\* leaves it as it was (of no effect when the read fills it)
Uninit(o) == IF o = "ok" THEN {0} ELSE Garbage

\* a flag call completes with result res
Complete(op, arg, res) ==
    /\ ~halted
    /\ regs' = res.regs
    /\ last' = CallRec(op, arg, res, regs)
    /\ UNCHANGED <<halted, written, pc, loc>>

\* the arguments ds3231_set_flag is called with
Upd(addr, bits, mode) == [addr |-> addr, bits |-> bits, mode |-> mode]

GetOscillatorStopFlag ==
    \E o \in Outcomes : \E g \in Uninit(o) :
        Complete("get_oscillator_stop_flag", <<>>,
                 ds3231_get_oscillator_stop_flag(regs, g, o))

ClearOscillatorStopFlag ==
    \E o1, o2 \in Outcomes : \E g \in Uninit(o1) :
        Complete("clear_oscillator_stop_flag",
                 Upd(DS3231_ADDR_STATUS, DS3231_STAT_OSCILLATOR, DS3231_CLEAR),
                 ds3231_clear_oscillator_stop_flag(regs, g, o1, o2))

GetAlarmFlags ==
    \E o \in Outcomes : \E g \in Uninit(o) :
        Complete("get_alarm_flags", <<>>, ds3231_get_alarm_flags(regs, g, o))

ClearAlarmFlags ==
    \E alarms \in Alarms : \E o1, o2 \in Outcomes : \E g \in Uninit(o1) :
        Complete("clear_alarm_flags",
                 Upd(DS3231_ADDR_STATUS, alarms, DS3231_CLEAR),
                 ds3231_clear_alarm_flags(regs, alarms, g, o1, o2))

EnableAlarmInts ==
    \E alarms \in Alarms : \E o1, o2 \in Outcomes : \E g \in Uninit(o1) :
        Complete("enable_alarm_ints",
                 Upd(DS3231_ADDR_CONTROL, BitOr(DS3231_CTRL_ALARM_INTS, alarms), DS3231_SET),
                 ds3231_enable_alarm_ints(regs, alarms, g, o1, o2))

DisableAlarmInts ==
    \E alarms \in Alarms : \E o1, o2 \in Outcomes : \E g \in Uninit(o1) :
        Complete("disable_alarm_ints",
                 Upd(DS3231_ADDR_CONTROL, alarms, DS3231_CLEAR),
                 ds3231_disable_alarm_ints(regs, alarms, g, o1, o2))

Enable32khz ==
    \E o1, o2 \in Outcomes : \E g \in Uninit(o1) :
        Complete("enable_32khz",
                 Upd(DS3231_ADDR_STATUS, DS3231_STAT_32KHZ, DS3231_SET),
                 ds3231_enable_32khz(regs, g, o1, o2))

Disable32khz ==
    \E o1, o2 \in Outcomes : \E g \in Uninit(o1) :
        Complete("disable_32khz",
                 Upd(DS3231_ADDR_STATUS, DS3231_STAT_32KHZ, DS3231_CLEAR),
                 ds3231_disable_32khz(regs, g, o1, o2))

EnableSquarewave ==
    \E o1, o2 \in Outcomes : \E g \in Uninit(o1) :
        Complete("enable_squarewave",
                 Upd(DS3231_ADDR_CONTROL, DS3231_CTRL_ALARM_INTS, DS3231_CLEAR),
                 ds3231_enable_squarewave(regs, g, o1, o2))

DisableSquarewave ==
    \E o1, o2 \in Outcomes : \E g \in Uninit(o1) :
        Complete("disable_squarewave",
                 Upd(DS3231_ADDR_CONTROL, DS3231_CTRL_ALARM_INTS, DS3231_SET),
                 ds3231_disable_squarewave(regs, g, o1, o2))

SetSquarewaveFreq ==
    \E freq \in SqwaveFreqs : \E o0, o1, o2 \in Outcomes :
    \E g \in Uninit(IF o0 = "ok" THEN o1 ELSE o0) :
        Complete("set_squarewave_freq", [freq |-> freq],
                 ds3231_set_squarewave_freq(regs, freq, g, o0, o1, o2))

NextFlags ==
    \/ GetOscillatorStopFlag
    \/ ClearOscillatorStopFlag
    \/ GetAlarmFlags
    \/ ClearAlarmFlags
    \/ EnableAlarmInts
    \/ DisableAlarmInts
    \/ Enable32khz
    \/ Disable32khz
    \/ EnableSquarewave
    \/ DisableSquarewave
    \/ SetSquarewaveFreq
    \/ ErrorHandlerHalts

SpecFlags == InitFlags /\ [][NextFlags]_vars

----------------------------------------------------------------------------
(* Two callers of ds3231_set_flag on one device, without serialization:    *)
(* each runs one flag update in its two bus steps, and the steps of the    *)
(* two interleave in any order.                                            *)

\* the bytes the flag registers may hold at start
CallerBytes == {0, 28, 136, 165, 255}

\* the single-bit masks
SingleBits == {1, 2, 4, 8, 16, 32, 64, 128}

CallerUpdates ==
    {Upd(a, b, m) : a \in FlagRegs, b \in SingleBits, m \in {DS3231_SET, DS3231_CLEAR}}

InitCallers ==
    /\ \E d \in CallerBytes :
         regs = [InitRegs EXCEPT ![DS3231_ADDR_CONTROL] = d, ![DS3231_ADDR_STATUS] = d]
    /\ InitRest

\* lines 148-159: caller c reads the register and computes the new byte
FlagBegin(c) ==
    /\ ~halted
    /\ pc[c] = "idle"
    /\ \E u \in CallerUpdates : \E o \in Outcomes : \E g \in Uninit(o) :
         LET s1 == set_flag_read(regs, u.addr, u.bits, u.mode, g, o)
         IN  /\ regs' = s1.regs
             /\ loc' = [loc EXCEPT ![c] =
                    [addr |-> u.addr, bits |-> u.bits, mode |-> u.mode,
                     data |-> s1.out, ret |-> s1.ret, pre |-> regs[u.addr],
                     second |-> \E d \in Procs : pc[d] = "done"]]
             /\ pc' = [pc EXCEPT ![c] = IF s1.ret # TRUE THEN "done" ELSE "read"]
    /\ UNCHANGED <<halted, written, last>>

\* line 161: caller c does the last step and returns
FlagEnd(c) ==
    /\ ~halted
    /\ pc[c] = "read"
    /\ \E o \in Outcomes :
       LET s2 == set_flag_writeback(regs, loc[c].addr, loc[c].data, o)
       IN  /\ regs' = s2.regs
           /\ loc' = [loc EXCEPT ![c].data = 0, ![c].ret = s2.ret]
           /\ pc' = [pc EXCEPT ![c] = "done"]
    /\ UNCHANGED <<halted, written, last>>

NextCallers ==
    \/ \E c \in Procs : FlagBegin(c)
    \/ \E c \in Procs : FlagEnd(c)
    \/ ErrorHandlerHalts

SpecCallers == InitCallers /\ [][NextCallers]_vars

\* every bus transfer of the recorded call c succeeded
AllOk(c) == \A i \in 1..Len(c.calls) : c.calls[i].ok

\* both nibbles of the byte b are decimal digits
IsBCD(b) == (b \div 16) <= 9 /\ (b % 16) <= 9

(* C1: a get-time whose read succeeds, after a set-time of a valid calendar *)
(* time t whose write reached the chip and no later write to the time       *)
(* registers, yields the second, minute, hour, weekday, day of month, month *)
(* and year of t.                                                           *)
C1_TimeRoundTrip ==
    (/\ last.op = "get_time"
     /\ AllOk(last)
     /\ written # <<>>
     /\ IsValidTm(written[1]))
    => last.out = written[1]

C1_Witness ==
    /\ last.op = "get_time"
    /\ AllOk(last)
    /\ written = <<Tm(59, 59, 23, 6, 31, 11, 2099)>>

(* C4: every operation reports success if and only if every transport call *)
(* it issued succeeded: a failed read or write makes it report failure, a   *)
(* successful write makes set-time report success.                          *)
C4_ErrorPropagation ==
    last.op # "none" => (last.ret = TRUE <=> AllOk(last))

(* C5: set-time with a calendar field outside its range reports failure    *)
(* and issues no transport call, and no byte with a non-BCD nibble is ever  *)
(* written to the time registers.                                           *)
C5_InvalidInputRejected ==
    /\ (last.op = "set_time" /\ ~IsValidTm(last.arg))
          => (last.ret = FALSE /\ last.calls = <<>>)
    /\ \A a \in 0..6 : IsBCD(regs[a])

(* C8: get-time on the hour register byte 0x41 (1 AM, 12-hour form) yields *)
(* hour 0, and on the hour register byte 0x61 (1 PM) yields hour 13.        *)
C8_TwelveHourDecode ==
    (last.op = "get_time" /\ AllOk(last))
    => /\ (regs[2] = 65 => last.out.tm_hour = 0)
       /\ (regs[2] = 97 => last.out.tm_hour = 13)

(* C6: set-alarm for alarm 1 with rate match-seconds-minutes-hours-day     *)
(* writes exactly 4 bytes starting at register 0x07, and the 4th byte has   *)
(* the day-indicator bit 0x40 set and its low bits equal to the BCD of      *)
(* weekday + 1, for every weekday 0..6.                                     *)
C6_Alarm1DayEncoding ==
    (/\ last.op = "set_alarm"
     /\ AllOk(last)
     /\ last.arg.alarms = DS3231_ALARM_1
     /\ last.arg.option1 = DS3231_ALARM1_MATCH_SECMINHOURDAY)
    => /\ last.calls = <<Call("write", DS3231_ADDR_ALARM1, 4, "ok")>>
       /\ BitAnd(regs[DS3231_ADDR_ALARM1 + 3], DS3231_ALARM_WDAY) = DS3231_ALARM_WDAY
       /\ BitAnd(regs[DS3231_ADDR_ALARM1 + 3], DS3231_ALARM_WDAY - 1)
            = dec2bcd(last.arg.time1.tm_wday + 1)

\* the operations that are one call of ds3231_set_flag
FlagUpdateOps ==
    {"clear_oscillator_stop_flag", "clear_alarm_flags", "enable_alarm_ints",
     "disable_alarm_ints", "enable_32khz", "disable_32khz",
     "enable_squarewave", "disable_squarewave"}

(* C2: a flag update on the register a with mask m whose transport calls   *)
(* all succeed is one 1-byte read of a followed by one 1-byte write to a,   *)
(* and leaves in a the byte d OR m (SET) or d AND NOT m (CLEAR), d being    *)
(* the byte a held before.                                                  *)
C2_FlagWriteBack ==
    (last.op \in FlagUpdateOps /\ AllOk(last))
    => /\ last.calls = << Call("read", last.arg.addr, 1, "ok"),
                          Call("write", last.arg.addr, 1, "ok") >>
       /\ regs[last.arg.addr]
            = FlagData(last.pre[last.arg.addr], last.arg.bits, last.arg.mode)

(* C3: after enable-alarm-interrupts(a) the control register has bit 0x04  *)
(* and the requested alarm-enable bits set and the enable bit of an alarm   *)
(* not requested unchanged; after disable-alarm-interrupts(a) the requested *)
(* alarm-enable bits are clear and every other control bit is unchanged.    *)
C3_AlarmInterruptEnables ==
    LET ctrl   == regs[DS3231_ADDR_CONTROL]
        before == last.pre[DS3231_ADDR_CONTROL]
        alarms == BitAnd(last.arg.bits, DS3231_ALARM_BOTH)
        others == DS3231_ALARM_BOTH - alarms
    IN  /\ (last.op = "enable_alarm_ints" /\ AllOk(last))
            => /\ BitAnd(ctrl, DS3231_CTRL_ALARM_INTS) = DS3231_CTRL_ALARM_INTS
               /\ BitAnd(ctrl, alarms) = alarms
               /\ BitAnd(ctrl, others) = BitAnd(before, others)
        /\ (last.op = "disable_alarm_ints" /\ AllOk(last))
            => /\ BitAnd(ctrl, alarms) = 0
               /\ BitAnd(ctrl, BitNot(alarms)) = BitAnd(before, BitNot(alarms))

(* C7: after set-squarewave-frequency(f) every control-register bit outside *)
(* the frequency-select field 0x18 equals its value before the call, and no *)
(* register other than the control register has changed.                    *)
C7_SquarewaveFreqFrame ==
    last.op = "set_squarewave_freq"
    => /\ BitAnd(regs[DS3231_ADDR_CONTROL], BitNot(DS3231_SQWAVE_8192HZ))
            = BitAnd(last.pre[DS3231_ADDR_CONTROL], BitNot(DS3231_SQWAVE_8192HZ))
       /\ \A a \in RegAddrs \ {DS3231_ADDR_CONTROL} : regs[a] = last.pre[a]

C7_Witness ==
    /\ last.op = "set_squarewave_freq"
    /\ AllOk(last)
    /\ last.arg.freq = DS3231_SQWAVE_4096HZ
    /\ BitAnd(last.pre[DS3231_ADDR_CONTROL], DS3231_CTRL_OSCILLATOR + DS3231_CTRL_ALARM_INTS)
         = DS3231_CTRL_OSCILLATOR + DS3231_CTRL_ALARM_INTS

\* caller d ran its whole flag update after caller c had returned from its
\* own, both on the same register
Serial(c, d) ==
    /\ c # d
    /\ pc[c] = "done"
    /\ pc[d] = "done"
    /\ loc[d].second
    /\ loc[c].addr = loc[d].addr

C10_SerialUpdatesBothApplied ==
    \A c, d \in Procs :
        (Serial(c, d) /\ loc[c].ret = TRUE /\ loc[d].ret = TRUE)
        => regs[loc[c].addr]
             = FlagData(FlagData(loc[c].pre, loc[c].bits, loc[c].mode),
                        loc[d].bits, loc[d].mode)

====
